---- MODULE Spec2Model ----
(***************************************************************************)
(* Model of plot_regression.py: the plot-request dispatcher main(), the    *)
(* seven renderers it calls, and the network-architecture layout           *)
(* draw_neural_net.                                                        *)
(*                                                                         *)
(* Python strings that the code parses (layer_sizes) are sequences of      *)
(* one-character strings.  An optional argument is a record with a `given` *)
(* flag, so that None and the empty string stay distinct.  Coordinates of  *)
(* the layout are exact rationals, kept as integer numerators over the     *)
(* common denominators xden = L-1 and yden = 2*max(layer_sizes); binary    *)
(* floating-point rounding is not modelled.                                *)
(***************************************************************************)
EXTENDS Integers, Sequences, FiniteSets, TLC

VARIABLES
    args,        \* argparse namespace of the invocation
    fs,          \* the file system the invocation starts in
    pc,          \* position of main(): start, load, dispatch, ok, except, done, or layout positions
    dirCreated,  \* os.makedirs(output_file.parent) has succeeded
    data,        \* the DataFrame read from data_file
    disk,        \* files on disk: data_file's contents and whether output_file holds an image
    renderer,    \* the create_*_plot function that was called ("none" before)
    plotted,     \* what the renderer drew on the figure
    drawArg,     \* the layer_sizes draw_neural_net was called with (a sequence of length <= 1 wrapping it)
    exc,         \* the exception caught by main's handler ("none" if none)
    stderr,      \* diagnostics printed on the error stream, in order
    stdout,      \* messages printed on the output stream, in order
    exitCode,    \* argument of sys.exit (NoExit before)
    layoutIn,    \* arguments of a direct draw_neural_net call
    layoutOut    \* the primitives that call added to the axis

vars == <<args, fs, pc, dirCreated, data, disk, renderer, plotted, drawArg,
          exc, stderr, stdout, exitCode, layoutIn, layoutOut>>

mainVars == <<args, fs, dirCreated, data, disk, renderer, plotted, drawArg,
              exc, stderr, stdout, exitCode>>

-----------------------------------------------------------------------------
(* Bounds of the model *)

\* longest layer_sizes string enumerated
MaxLen == 3
\* largest score of a feature-importance entry
MaxScore == 2
\* most members in a JSON object text / rows in a feature table
MaxEntries == 2
\* a direct layout call has at most this many layers
MaxLayers == 3
\* and layer sizes up to this
MaxLayerSize == 5
\* bounding boxes have corners in 0..MaxCoord
MaxCoord == 2

\* exitCode while the process is still running
NoExit == 0 - 1

-----------------------------------------------------------------------------
(* Generic helpers *)

RECURSIVE SeqsUpTo(_, _)
SeqsUpTo(S, n) ==
    IF n = 0 THEN {<<>>}
    ELSE LET shorter == SeqsUpTo(S, n - 1)
         IN  shorter \cup {Append(s, x) : s \in {t \in shorter : Len(t) = n - 1}, x \in S}

Range(s) == {s[i] : i \in DOMAIN s}

RECURSIVE Flatten(_)
Flatten(ss) == IF ss = <<>> THEN <<>> ELSE Head(ss) \o Flatten(Tail(ss))

SeqMax(s) == CHOOSE x \in Range(s) : \A y \in Range(s) : y <= x

-----------------------------------------------------------------------------
(* draw_neural_net: the layout *)

\* Circle n (0-based layer), m (0-based node): centre (n*h_spacing + left, layer_top - m*v_spacing)
\* as numerators over xden = L-1 and yden = 2*max(layer_sizes).
CircleAt(left, right, bottom, top, sizes, n, m) ==
    [x |-> n * (right - left) + left * (Len(sizes) - 1),
     y |-> (top - bottom) * (sizes[n + 1] - 1 - 2 * m) + (top + bottom) * SeqMax(sizes)]

LayerCircles(left, right, bottom, top, sizes, n) ==
    IF sizes[n + 1] <= 0 THEN <<>>
    ELSE [k \in 1..sizes[n + 1] |-> CircleAt(left, right, bottom, top, sizes, n, k - 1)]

\* Edges between layer n and n+1: for m in range(a): for o in range(b)
LayerEdges(left, right, bottom, top, sizes, n) ==
    LET a == sizes[n + 1]
        b == sizes[n + 2]
    IN  IF a <= 0 \/ b <= 0 THEN <<>>
        ELSE [k \in 1..(a * b) |->
                [from |-> CircleAt(left, right, bottom, top, sizes, n, (k - 1) \div b),
                 to   |-> CircleAt(left, right, bottom, top, sizes, n + 1, (k - 1) % b)]]

NoDrawing == [raised |-> "none", xden |-> 0, yden |-> 0, circles |-> <<>>, edges |-> <<>>]

\* Variant: the nodes loop stops one layer short.
DrawNeuralNet_skipLast(left, right, bottom, top, sizes) ==
    LET L == Len(sizes)
    IN  IF SeqMax(sizes) = 0 \/ L - 1 = 0
        THEN [NoDrawing EXCEPT !.raised = "ZeroDivisionError"]
        ELSE [raised  |-> "none",
              xden    |-> L - 1,
              yden    |-> 2 * SeqMax(sizes),
              circles |-> Flatten([n \in 1..(L - 1) |->
                              LayerCircles(left, right, bottom, top, sizes, n - 1)]),
              edges   |-> Flatten([n \in 1..(L - 1) |->
                              LayerEdges(left, right, bottom, top, sizes, n - 1)])]

DrawNeuralNet(left, right, bottom, top, sizes) ==
    LET L == Len(sizes)
    IN  IF SeqMax(sizes) = 0 \/ L - 1 = 0
        THEN [NoDrawing EXCEPT !.raised = "ZeroDivisionError"]
        ELSE [raised  |-> "none",
              xden    |-> L - 1,
              yden    |-> 2 * SeqMax(sizes),
              circles |-> Flatten([n \in 1..L |->
                              LayerCircles(left, right, bottom, top, sizes, n - 1)]),
              edges   |-> Flatten([n \in 1..(L - 1) |->
                              LayerEdges(left, right, bottom, top, sizes, n - 1)])]

-----------------------------------------------------------------------------
(* Optional command-line arguments *)

\* argparse leaves an option that was not given at None; `text` is then unused.
Opt(given, text) == [given |-> given, text |-> text]

\* Python truthiness of an optional string: neither None nor empty.
TruthyStr(a) == a.given /\ a.text # ""

TruthySeq(a) == a.given /\ a.text # <<>>

TruthyJson(a) == a.given /\ a.text.kind # "empty"

-----------------------------------------------------------------------------
(* layer_sizes: str.split(',') and int() *)

Alphabet == {"0", "2", ",", "x", "-"}

DigitChars == {"0", "1", "2", "3", "4", "5", "6", "7", "8", "9"}

DigitVal(c) ==
    CASE c = "0" -> 0 [] c = "1" -> 1 [] c = "2" -> 2 [] c = "3" -> 3 [] c = "4" -> 4
      [] c = "5" -> 5 [] c = "6" -> 6 [] c = "7" -> 7 [] c = "8" -> 8 [] c = "9" -> 9

\* s.split(','): always at least one piece; "" gives [""].
RECURSIVE Split(_)
Split(s) ==
    IF \A i \in DOMAIN s : s[i] # "," THEN <<s>>
    ELSE LET i == CHOOSE k \in DOMAIN s : s[k] = "," /\ \A j \in 1..(k - 1) : s[j] # ","
         IN  <<SubSeq(s, 1, i - 1)>> \o Split(SubSeq(s, i + 1, Len(s)))

Unsigned(p) == IF p # <<>> /\ p[1] = "-" THEN Tail(p) ELSE p

\* int(p) succeeds: an optional sign, then one or more decimal digits.  (The
\* whitespace, "+" and "_" forms int() also takes are outside Alphabet.)
IsIntLiteral(p) == Unsigned(p) # <<>> /\ \A i \in DOMAIN Unsigned(p) : Unsigned(p)[i] \in DigitChars

RECURSIVE DigitsValue(_)
DigitsValue(d) ==
    IF d = <<>> THEN 0 ELSE 10 * DigitsValue(SubSeq(d, 1, Len(d) - 1)) + DigitVal(d[Len(d)])

IntValue(p) == IF p # <<>> /\ p[1] = "-" THEN 0 - DigitsValue(Tail(p)) ELSE DigitsValue(p)

DefaultLayerSizes == <<4, 6, 5, 3>>

\* Variant: the ValueError is not caught.
ParseLayerSizes_raise(text) ==
    LET pieces == Split(text)
    IN  IF \A i \in DOMAIN pieces : IsIntLiteral(pieces[i])
        THEN [sizes |-> [i \in DOMAIN pieces |-> IntValue(pieces[i])], msgs |-> <<>>, raised |-> "none"]
        ELSE [sizes |-> <<>>, msgs |-> <<>>, raised |-> "ValueError"]

\* The str branch of create_neural_network_architecture_plot: the list of ints, or on
\* ValueError the diagnostic and the default.
ParseLayerSizes(text) ==
    LET pieces == Split(text)
    IN  IF \A i \in DOMAIN pieces : IsIntLiteral(pieces[i])
        THEN [sizes |-> [i \in DOMAIN pieces |-> IntValue(pieces[i])], msgs |-> <<>>, raised |-> "none"]
        ELSE [sizes  |-> DefaultLayerSizes,
              msgs   |-> <<"Error: Invalid layer sizes format">>,
              raised |-> "none"]

-----------------------------------------------------------------------------
(* JSON object texts and json.loads *)

FeatureNames == {"a", "b"}

Members == [name : FeatureNames, score : 0..MaxScore]

\* A JSON text: the empty string, something json.loads rejects (or that is no
\* object of numbers), or an object written as its members in order.
JsonText(kind, members) == [kind |-> kind, members |-> members]

EmptyText == JsonText("empty", <<>>)

GarbageText == JsonText("garbage", <<>>)

EmptyObjectText == JsonText("object", <<>>)

ObjectTexts(n) == {JsonText("object", m) : m \in SeqsUpTo(Members, n)}

\* dict semantics of json.loads on an object: a repeated key keeps its first
\* position and takes its last value.
RECURSIVE JsonLoads(_)
JsonLoads(members) ==
    IF members = <<>> THEN <<>>
    ELSE LET front == JsonLoads(SubSeq(members, 1, Len(members) - 1))
             last  == members[Len(members)]
         IN  IF \E i \in DOMAIN front : front[i].name = last.name
             THEN [i \in DOMAIN front |->
                     IF front[i].name = last.name THEN last ELSE front[i]]
             ELSE Append(front, last)

\* np.argsort(scores) / sort_values(ascending=True): an index permutation that puts
\* the scores in non-decreasing order; the order among equal scores is not fixed
\* by the default sort kind.
ArgSorts(scores) ==
    LET n == Len(scores)
    IN  {p \in [1..n -> 1..n] :
            /\ \A i, j \in 1..n : p[i] = p[j] => i = j
            /\ \A i \in 1..(n - 1) : scores[p[i]] <= scores[p[i + 1]]}

SortedBars(entries) ==
    LET scores == [i \in DOMAIN entries |-> entries[i].score]
    IN  {[i \in DOMAIN entries |-> entries[p[i]]] : p \in ArgSorts(scores)}

-----------------------------------------------------------------------------
(* The file system and the arguments an invocation starts from *)

ColumnNames == {"actual", "predicted", "residual", "training_size",
                "training_score", "validation_score", "feature", "importance"}

PlotTypes == {"scatter", "timeseries", "residual", "importance",
              "learning_curve", "nn_architecture", "tree"}

\* What pd.read_csv(data_file) gives: whether it can be read at all, the column
\* names, whether the frame has no rows (data.empty), the (feature, importance)
\* rows when those columns exist, and the text of the cell data.iloc[0, 0].
Dataset(readable, columns, empty, rows, cell00) ==
    [readable |-> readable, columns |-> columns, empty |-> empty,
     rows |-> rows, cell00 |-> cell00]

Unreadable == Dataset(FALSE, {}, TRUE, <<>>, GarbageText)

Table(columns) == Dataset(TRUE, columns, FALSE, <<>>, GarbageText)

NoData == Dataset(FALSE, {}, TRUE, <<>>, EmptyText)

\* The file model_file names: unreadable, or a table with or without `predicted`.
ModelFiles == {[readable |-> FALSE, columns |-> {}],
               [readable |-> TRUE, columns |-> {}],
               [readable |-> TRUE, columns |-> {"predicted"}]}

NoArgs(t) ==
    [plot_type |-> t,
     model_file |-> Opt(FALSE, ""), x_column |-> Opt(FALSE, ""), y_column |-> Opt(FALSE, ""),
     features_json |-> Opt(FALSE, EmptyText), layer_sizes |-> Opt(FALSE, <<>>),
     tree_structure |-> Opt(FALSE, "")]

FileSystem(dirCreatable, outWritable, dataset, model) ==
    [dirCreatable |-> dirCreatable, outWritable |-> outWritable,
     dataset |-> dataset, model |-> model]

OptStrings(S) == {Opt(FALSE, "")} \cup {Opt(TRUE, t) : t \in S \cup {""}}

\* Data files an importance request is run against.
FeatureTables == {Dataset(TRUE, {"feature", "importance"}, r = <<>>, r, GarbageText) :
                     r \in SeqsUpTo(Members, MaxEntries)}

JsonCellTables == {Dataset(TRUE, {"json"}, FALSE, <<>>, t) :
                     t \in ObjectTexts(MaxEntries) \cup {GarbageText}}

EmptyTable == Dataset(TRUE, {}, TRUE, <<>>, GarbageText)

\* The (arguments, data file, model file) combinations enumerated.  Options the
\* selected branch of main never reads stay at their argparse default.
Requests ==
    {<<[NoArgs("scatter") EXCEPT !.model_file = m, !.x_column = x, !.y_column = y],
       Table(c), f>> :
        m \in OptStrings({"model.csv"}), x \in OptStrings({"x"}),
        y \in OptStrings({"actual", "residual"}),
        c \in SUBSET {"actual", "residual"}, f \in ModelFiles}
    \cup {<<NoArgs(t), Table(c), CHOOSE f \in ModelFiles : ~f.readable>> :
        t \in {"timeseries", "residual", "learning_curve"}, c \in SUBSET ColumnNames}
    \cup {<<NoArgs("importance"), d, CHOOSE f \in ModelFiles : ~f.readable>> :
        d \in FeatureTables \cup JsonCellTables \cup {EmptyTable}}
    \cup {<<[NoArgs("importance") EXCEPT !.features_json = Opt(TRUE, j)], d,
            CHOOSE f \in ModelFiles : ~f.readable>> :
        j \in ObjectTexts(MaxEntries) \cup {EmptyText, GarbageText},
        d \in {EmptyTable, Table({"actual"}),
               Dataset(TRUE, {"feature", "importance"}, FALSE,
                       <<[name |-> "b", score |-> 1], [name |-> "a", score |-> 0]>>, GarbageText),
               Dataset(TRUE, {"json"}, FALSE, <<>>,
                       JsonText("object", <<[name |-> "b", score |-> 1]>>))}}
    \cup {<<[NoArgs("nn_architecture") EXCEPT !.layer_sizes = l], Table(c),
            CHOOSE f \in ModelFiles : ~f.readable>> :
        l \in {Opt(FALSE, <<>>)} \cup {Opt(TRUE, t) : t \in SeqsUpTo(Alphabet, MaxLen)},
        c \in {{}, {"actual", "predicted"}}}
    \cup {<<[NoArgs("tree") EXCEPT !.tree_structure = t], Table(c),
            CHOOSE f \in ModelFiles : ~f.readable>> :
        t \in OptStrings({"{}"}), c \in {{}, {"actual", "predicted"}}}

NoPlot == [series |-> {}, bars |-> <<>>, net |-> NoDrawing]

NoLayoutIn == [left |-> 0, right |-> 0, bottom |-> 0, top |-> 0, sizes |-> <<>>]

\* The state main() starts in, for every request and every file system: the
\* output directory can or cannot be created, the image can or cannot be written,
\* the data file can or cannot be read.
Init ==
    /\ \E r \in Requests, dirCreatable \in BOOLEAN, outWritable \in BOOLEAN, readable \in BOOLEAN :
        /\ args = r[1]
        /\ fs = FileSystem(dirCreatable, outWritable, IF readable THEN r[2] ELSE Unreadable, r[3])
    /\ pc = "start"
    /\ dirCreated = FALSE
    /\ data = NoData
    /\ disk = [data_file |-> "original", output_file |-> "absent"]
    /\ renderer = "none"
    /\ plotted = NoPlot
    /\ drawArg = <<>>
    /\ exc = "none"
    /\ stderr = <<>>
    /\ stdout = <<>>
    /\ exitCode = NoExit
    /\ layoutIn = NoLayoutIn
    /\ layoutOut = NoDrawing

-----------------------------------------------------------------------------
(* Messages *)

MsgScatterArgs == "Scatter plots require model_file, x_column, and y_column arguments"

MsgLayerArgs == "Neural network architecture plots require layer_sizes argument"

MsgTreeArgs == "Tree visualization plots require tree_structure argument"

MsgResidualColumns == "Error: Required columns not found for residual plot"

MsgLearningColumns == "Error: Required columns not found for learning curve plot"

MsgFeatureParse == "Error parsing feature importance data"

MsgSaved == "Plot saved as: output_file"

-----------------------------------------------------------------------------
(* main(): the steps before the dispatch *)

Raise(e) ==
    /\ exc' = e
    /\ pc' = "except"

\* os.makedirs(output_file.parent, exist_ok=True)
MakeDirs ==
    /\ pc = "start"
    /\ IF fs.dirCreatable
       THEN /\ dirCreated' = TRUE
            /\ pc' = "load"
            /\ exc' = exc
       ELSE /\ Raise("OSError")
            /\ dirCreated' = dirCreated
    /\ UNCHANGED <<args, fs, data, disk, renderer, plotted, drawArg, stderr, stdout,
                   exitCode, layoutIn, layoutOut>>

\* Variant: a failed read is not noticed before the dispatch.
LoadData_lazy ==
    /\ pc = "load"
    /\ data' = fs.dataset
    /\ pc' = "dispatch"
    /\ UNCHANGED <<args, fs, dirCreated, disk, renderer, plotted, drawArg, stderr, stdout,
                   exitCode, exc, layoutIn, layoutOut>>

\* data = pd.read_csv(data_file)
LoadData ==
    /\ pc = "load"
    /\ IF fs.dataset.readable
       THEN /\ data' = fs.dataset
            /\ pc' = "dispatch"
            /\ exc' = exc
       ELSE /\ Raise("FileReadError")
            /\ data' = data
    /\ UNCHANGED <<args, fs, dirCreated, disk, renderer, plotted, drawArg, stderr, stdout,
                   exitCode, layoutIn, layoutOut>>

-----------------------------------------------------------------------------
(* The renderers *)

\* A renderer call on the disk d0: what it printed on stderr, then either the
\* exception that left it or plt.savefig, which writes the image or raises.
Render(name, d0, drawn, msgs, raised) ==
    /\ renderer' = name
    /\ stderr' = stderr \o msgs
    /\ plotted' = drawn
    /\ IF raised # "none"
       THEN Raise(raised) /\ disk' = d0
       ELSE IF fs.outWritable
            THEN /\ disk' = [d0 EXCEPT !.output_file = "png"]
                 /\ pc' = "ok"
                 /\ exc' = exc
            ELSE Raise("OSError") /\ disk' = d0

\* A branch of main that raises before calling its renderer.
Reject(msg) ==
    /\ Raise(msg)
    /\ UNCHANGED <<renderer, stderr, plotted, disk>>

\* Variant: only model_file is required.
ScatterArgsMissing_onlyModel(a) == ~TruthyStr(a.model_file)

\* if not args.model_file or not args.x_column or not args.y_column
ScatterArgsMissing(a) ==
    ~TruthyStr(a.model_file) \/ ~TruthyStr(a.x_column) \/ ~TruthyStr(a.y_column)

\* create_scatter_plot: data[y_column], model_data['predicted']
ScatterRaised(columns, modelColumns, y) ==
    IF y \notin columns \/ "predicted" \notin modelColumns THEN "KeyError" ELSE "none"

Scatter ==
    /\ pc = "dispatch"
    /\ args.plot_type = "scatter"
    /\ IF ScatterArgsMissing(args) THEN Reject(MsgScatterArgs)
       ELSE IF ~fs.model.readable THEN Reject("FileReadError")
       ELSE LET raised == ScatterRaised(data.columns, fs.model.columns, args.y_column.text)
            IN  Render("create_scatter_plot", disk,
                       [NoPlot EXCEPT !.series = IF raised = "none"
                                                 THEN {"Data Points", "Perfect Prediction"}
                                                 ELSE {}],
                       <<>>, raised)
    /\ UNCHANGED <<args, fs, dirCreated, data, drawArg, stdout, exitCode, layoutIn, layoutOut>>

\* has_actual / has_predicted: each series is plotted if its column is there
TimeseriesSeries(columns) == {"actual", "predicted"} \cap columns

Timeseries ==
    /\ pc = "dispatch"
    /\ args.plot_type = "timeseries"
    /\ Render("create_timeseries_plot", disk,
              [NoPlot EXCEPT !.series = TimeseriesSeries(data.columns)],
              <<>>, "none")
    /\ UNCHANGED <<args, fs, dirCreated, data, drawArg, stdout, exitCode, layoutIn, layoutOut>>

\* create_residual_plot: the points, or the diagnostic when the columns are not there
ResidualDrawn(columns) ==
    IF {"predicted", "residual"} \subseteq columns \/ {"actual", "predicted"} \subseteq columns
    THEN [series |-> {"residual"}, msgs |-> <<>>]
    ELSE [series |-> {}, msgs |-> <<MsgResidualColumns>>]

Residual ==
    /\ pc = "dispatch"
    /\ args.plot_type = "residual"
    /\ LET r == ResidualDrawn(data.columns)
       IN  Render("create_residual_plot", disk, [NoPlot EXCEPT !.series = r.series], r.msgs, "none")
    /\ UNCHANGED <<args, fs, dirCreated, data, drawArg, stdout, exitCode, layoutIn, layoutOut>>

\* create_learning_curve_plot
LearningCurveDrawn(columns) ==
    IF {"training_size", "training_score", "validation_score"} \subseteq columns
    THEN [series |-> {"Training score", "Validation score"}, msgs |-> <<>>]
    ELSE [series |-> {}, msgs |-> <<MsgLearningColumns>>]

LearningCurve ==
    /\ pc = "dispatch"
    /\ args.plot_type = "learning_curve"
    /\ LET r == LearningCurveDrawn(data.columns)
       IN  Render("create_learning_curve_plot", disk, [NoPlot EXCEPT !.series = r.series], r.msgs, "none")
    /\ UNCHANGED <<args, fs, dirCreated, data, drawArg, stdout, exitCode, layoutIn, layoutOut>>

\* create_importance_plot(data, ...): the bars it can draw from the loaded frame d.
\* A set, because the order among equal scores is not fixed.
ImportanceDrawn(d) ==
    IF {"importance", "feature"} \subseteq d.columns
    THEN {[bars |-> b, msgs |-> <<>>] : b \in SortedBars(d.rows)}
    ELSE LET text == IF ~d.empty THEN d.cell00 ELSE EmptyObjectText
         IN  IF text.kind = "object"
             THEN {[bars |-> b, msgs |-> <<>>] : b \in SortedBars(JsonLoads(text.members))}
             ELSE {[bars |-> <<>>, msgs |-> <<MsgFeatureParse>>]}

\* if args.features_json: with open(data_file, 'w') as f: f.write(args.features_json)
FeaturesWritten(a, d0) ==
    IF TruthyJson(a.features_json) THEN [d0 EXCEPT !.data_file = "features_json"] ELSE d0

\* The importance branch: features_json, if given, is written over data_file; the
\* renderer is given the frame that was loaded before.
Importance ==
    /\ pc = "dispatch"
    /\ args.plot_type = "importance"
    /\ \E r \in ImportanceDrawn(data) :
          Render("create_importance_plot", FeaturesWritten(args, disk),
                 [NoPlot EXCEPT !.bars = r.bars], r.msgs, "none")
    /\ UNCHANGED <<args, fs, dirCreated, data, drawArg, stdout, exitCode, layoutIn, layoutOut>>

\* create_neural_network_architecture_plot: parse, then draw_neural_net(ax, 0, 1, 0, 1, ...)
NNArchitecture ==
    /\ pc = "dispatch"
    /\ args.plot_type = "nn_architecture"
    /\ IF ~TruthySeq(args.layer_sizes)
       THEN Reject(MsgLayerArgs) /\ drawArg' = drawArg
       ELSE LET p == ParseLayerSizes(args.layer_sizes.text)
            IN  IF p.raised # "none"
                THEN /\ Render("create_neural_network_architecture_plot", disk,
                               NoPlot, p.msgs, p.raised)
                     /\ drawArg' = drawArg
                ELSE LET net == DrawNeuralNet(0, 1, 0, 1, p.sizes)
                     IN  /\ drawArg' = <<p.sizes>>
                         /\ Render("create_neural_network_architecture_plot", disk,
                                   [NoPlot EXCEPT !.net = net], p.msgs, net.raised)
    /\ UNCHANGED <<args, fs, dirCreated, data, stdout, exitCode, layoutIn, layoutOut>>

\* create_tree_visualization_plot: a placeholder text
Tree ==
    /\ pc = "dispatch"
    /\ args.plot_type = "tree"
    /\ IF ~TruthyStr(args.tree_structure)
       THEN Reject(MsgTreeArgs)
       ELSE Render("create_tree_visualization_plot", disk,
                   [NoPlot EXCEPT !.series = {"placeholder"}], <<>>, "none")
    /\ UNCHANGED <<args, fs, dirCreated, data, drawArg, stdout, exitCode, layoutIn, layoutOut>>

-----------------------------------------------------------------------------
(* main(): the two ways out *)

\* print(f"Plot saved as: {output_file}"); sys.exit(0)
ReportSuccess ==
    /\ pc = "ok"
    /\ stdout' = Append(stdout, MsgSaved)
    /\ exitCode' = 0
    /\ pc' = "done"
    /\ UNCHANGED <<args, fs, dirCreated, data, disk, renderer, plotted, drawArg, exc,
                   stderr, layoutIn, layoutOut>>

\* except Exception as e: print(f"Error creating plot: {str(e)}", file=sys.stderr); sys.exit(1)
HandleException ==
    /\ pc = "except"
    /\ stderr' = Append(stderr, exc)
    /\ exitCode' = 1
    /\ pc' = "done"
    /\ UNCHANGED <<args, fs, dirCreated, data, disk, renderer, plotted, drawArg, exc,
                   stdout, layoutIn, layoutOut>>

Next ==
    \/ MakeDirs
    \/ LoadData
    \/ Scatter
    \/ Timeseries
    \/ Residual
    \/ Importance
    \/ LearningCurve
    \/ NNArchitecture
    \/ Tree
    \/ ReportSuccess
    \/ HandleException

Spec == Init /\ [][Next]_vars

-----------------------------------------------------------------------------
(* draw_neural_net called directly, on any bounding box *)

Boxes == {b \in [left : 0..MaxCoord, right : 0..MaxCoord, bottom : 0..MaxCoord, top : 0..MaxCoord] :
            b.left < b.right /\ b.bottom < b.top}

\* Lists of positive sizes, and lists with empty layers (all of them raise or draw
\* nothing for that layer).
LayerSizeLists ==
    (SeqsUpTo(1..MaxLayerSize, MaxLayers) \cup SeqsUpTo(0..1, MaxLayers)) \ {<<>>}

InitLayout ==
    /\ \E b \in Boxes, sizes \in LayerSizeLists :
          layoutIn = [left |-> b.left, right |-> b.right, bottom |-> b.bottom,
                      top |-> b.top, sizes |-> sizes]
    /\ layoutOut = NoDrawing
    /\ pc = "layout"
    /\ args = NoArgs("nn_architecture")
    /\ fs = FileSystem(FALSE, FALSE, Unreadable, CHOOSE f \in ModelFiles : ~f.readable)
    /\ dirCreated = FALSE
    /\ data = NoData
    /\ disk = [data_file |-> "original", output_file |-> "absent"]
    /\ renderer = "none"
    /\ plotted = NoPlot
    /\ drawArg = <<>>
    /\ exc = "none"
    /\ stderr = <<>>
    /\ stdout = <<>>
    /\ exitCode = NoExit

DrawLayout ==
    /\ pc = "layout"
    /\ layoutOut' = DrawNeuralNet(layoutIn.left, layoutIn.right, layoutIn.bottom,
                                  layoutIn.top, layoutIn.sizes)
    /\ pc' = "layout_done"
    /\ UNCHANGED <<layoutIn, mainVars>>

NextLayout == DrawLayout

SpecLayout == InitLayout /\ [][NextLayout]_vars

-----------------------------------------------------------------------------
(* Vocabulary of the properties *)

Done == pc = "done"

\* main got as far as the dispatch on plot_type
Dispatched == dirCreated /\ data.readable

Succeeded == exitCode = 0 /\ disk.output_file = "png" /\ MsgSaved \in Range(stdout)

NoImage == disk.output_file = "absent"

\* Error kinds of the diagnostics
MissingColumnsMsgs == {MsgResidualColumns, MsgLearningColumns, "KeyError"}

ValidSizes(sizes) == Len(sizes) >= 2 /\ \A i \in DOMAIN sizes : sizes[i] >= 1

RECURSIVE SumSeq(_)
SumSeq(s) == IF s = <<>> THEN 0 ELSE Head(s) + SumSeq(Tail(s))

RECURSIVE SumProducts(_)
SumProducts(sizes) ==
    IF Len(sizes) < 2 THEN 0 ELSE sizes[1] * sizes[2] + SumProducts(Tail(sizes))

InsideBox(c, out, in) ==
    /\ in.left * out.xden <= c.x
    /\ c.x <= in.right * out.xden
    /\ in.bottom * out.yden <= c.y
    /\ c.y <= in.top * out.yden

\* The text is a comma-delimited list of integers: pieces of digits, each with an
\* optional leading minus sign, separated by single commas.
IsIntList(text) ==
    /\ text # <<>>
    /\ \A i \in DOMAIN text : text[i] \in DigitChars \cup {",", "-"}
    /\ text[1] # ","
    /\ text[Len(text)] \notin {",", "-"}
    /\ \A i \in 1..(Len(text) - 1) :
          /\ text[i] = "," => text[i + 1] # ","
          /\ text[i] = "-" => text[i + 1] \in DigitChars
    /\ \A i \in 2..Len(text) : text[i] = "-" => text[i - 1] = ","

NonDecreasing(bars) == \A i \in 1..(Len(bars) - 1) : bars[i].score <= bars[i + 1].score

SameEntries(bars, entries) ==
    /\ Len(bars) = Len(entries)
    /\ \E p \in [1..Len(bars) -> 1..Len(bars)] :
          /\ \A i, j \in 1..Len(bars) : p[i] = p[j] => i = j
          /\ \A i \in 1..Len(bars) : bars[i] = entries[p[i]]

-----------------------------------------------------------------------------
(* Properties *)

\* C1: for every layer-size list of length >= 2 with all entries >= 1, draw_neural_net
\* on the box [left,right] x [bottom,top] raises nothing, adds sum(s_i) circles and
\* sum(s_i * s_(i+1)) edges, and every circle's centre lies inside the box; sizes
\* 3,5,2 give 10 circles and 25 edges.
C1_LayoutCountsAndBox ==
    (pc = "layout_done" /\ ValidSizes(layoutIn.sizes)) =>
        /\ layoutOut.raised = "none"
        /\ Len(layoutOut.circles) = SumSeq(layoutIn.sizes)
        /\ Len(layoutOut.edges) = SumProducts(layoutIn.sizes)
        /\ \A i \in DOMAIN layoutOut.circles : InsideBox(layoutOut.circles[i], layoutOut, layoutIn)
        /\ layoutIn.sizes = <<3, 5, 2>> =>
              Len(layoutOut.circles) = 10 /\ Len(layoutOut.edges) = 25

C1_Witness ==
    /\ pc = "layout_done"
    /\ layoutIn.sizes = <<3, 5, 2>>
    /\ layoutIn.left = 0 /\ layoutIn.right = 1
    /\ Len(layoutOut.circles) = 10
    /\ Len(layoutOut.edges) = 25

\* C2: a residual request whose dataset has no `residual` column and not both
\* `actual` and `predicted` ends with exit code 1, a MissingColumns diagnostic and
\* no output file.
C2_ResidualMissingColumnsFails ==
    (/\ Done
     /\ args.plot_type = "residual"
     /\ Dispatched
     /\ "residual" \notin data.columns
     /\ ~({"actual", "predicted"} \subseteq data.columns)) =>
        /\ exitCode = 1
        /\ Range(stderr) \cap MissingColumnsMsgs # {}
        /\ NoImage

\* C3: a timeseries request (data file loaded, image writable) succeeds
\* with exactly the present series plotted when `actual` or `predicted` is there,
\* and exits 1 when neither is.
C3_TimeseriesFailsWithNeither ==
    (Done /\ args.plot_type = "timeseries" /\ Dispatched /\ fs.outWritable) =>
        IF {"actual", "predicted"} \cap data.columns # {}
        THEN Succeeded /\ plotted.series = {"actual", "predicted"} \cap data.columns
        ELSE exitCode = 1

\* C4: a learning_curve request whose dataset lacks one of training_size,
\* training_score, validation_score exits with status 1 and does not report success.
C4_LearningCurveMissingColumnsFails ==
    (/\ Done
     /\ args.plot_type = "learning_curve"
     /\ Dispatched
     /\ ~({"training_size", "training_score", "validation_score"} \subseteq data.columns)) =>
        /\ exitCode = 1
        /\ MsgSaved \notin Range(stdout)

\* C5 as stated: for an nn_architecture request (data file loaded, image writable),
\* every supplied layer_sizes string that is no comma-delimited list of integers is
\* replaced by [4, 6, 5, 3] and the request succeeds.
C5_EveryUnparsableFallsBack ==
    (/\ Done
     /\ args.plot_type = "nn_architecture"
     /\ Dispatched /\ fs.outWritable
     /\ args.layer_sizes.given
     /\ ~IsIntList(args.layer_sizes.text)) =>
        /\ drawArg = <<DefaultLayerSizes>>
        /\ Succeeded

\* C5 amended: for an nn_architecture request (data file loaded, image writable),
\* every supplied non-empty layer_sizes string that is no comma-delimited list of
\* integers is replaced by [4, 6, 5, 3] and the request succeeds; the empty string
\* is rejected like a missing argument: exit 1, no layout, no image.
C5_NonEmptyUnparsableFallsBack ==
    (/\ Done
     /\ args.plot_type = "nn_architecture"
     /\ Dispatched /\ fs.outWritable
     /\ args.layer_sizes.given
     /\ ~IsIntList(args.layer_sizes.text)) =>
        IF args.layer_sizes.text # <<>>
        THEN /\ drawArg = <<DefaultLayerSizes>>
             /\ Len(plotted.net.circles) = 18
             /\ Succeeded
        ELSE /\ exitCode = 1
             /\ drawArg = <<>>
             /\ NoImage
             /\ stderr = <<MsgLayerArgs>>

C5_Witness ==
    /\ Done
    /\ args.plot_type = "nn_architecture"
    /\ args.layer_sizes = Opt(TRUE, <<"2", ",", "x">>)
    /\ drawArg = <<DefaultLayerSizes>>
    /\ MsgSaved \in Range(stdout)
    /\ exitCode = 0

\* C6: an importance request that carries a JSON name->score mapping renders
\* exactly the entries of that mapping, in non-decreasing score order, for any
\* mapping including the empty and the single-entry one.
C6_FeaturesJsonRendered ==
    (/\ Done
     /\ args.plot_type = "importance"
     /\ Dispatched /\ fs.outWritable
     /\ args.features_json.given
     /\ args.features_json.text.kind = "object") =>
        /\ SameEntries(plotted.bars, JsonLoads(args.features_json.text.members))
        /\ NonDecreasing(plotted.bars)

\* C7: no invocation modifies the source data file; the only file written is the
\* image at output_file.
C7_DataFileNeverWritten == disk.data_file = "original"

\* C8: whenever draw_neural_net is invoked, the layer-size list it receives has
\* length >= 2 and every entry >= 1.
C8_LayoutArgumentValid == drawArg # <<>> => ValidSizes(drawArg[1])

C10_LoadBeforeDispatch ==
    /\ pc \in {"load", "dispatch", "ok"} => dirCreated
    /\ (pc \in {"dispatch", "ok"} \/ renderer # "none") => Dispatched
    /\ ~fs.dataset.readable =>
          /\ renderer = "none"
          /\ NoImage
          /\ drawArg = <<>>
          /\ Done => exitCode = 1

C10_Witness ==
    /\ Done
    /\ args.plot_type = "nn_architecture"
    /\ args.layer_sizes = Opt(TRUE, <<"2", ",", "2">>)
    /\ dirCreated
    /\ ~fs.dataset.readable
    /\ fs.outWritable
    /\ exitCode = 1
    /\ stderr = <<"FileReadError">>

====
